---- MODULE Spec2Model ----
(***************************************************************************)
(* Tag reconciliation (ClaudeTagger.generate_tags) and reply parsing       *)
(* (ClaudeTagger._parse_tags_response) of the Shopify product tagger, the  *)
(* catalog side (Product.from_api, get_all_existing_tags), the two Shopify *)
(* clients (get_product, update_product_tags) and the commands tag_product *)
(* and tag_all.                                                            *)
(*                                                                         *)
(* A Python str is a sequence of one-character strings, so that lower(),   *)
(* strip(), split(), startswith() and json.loads() are computed on the     *)
(* characters and are not the identity.                                    *)
(***************************************************************************)
EXTENDS Integers, Sequences, FiniteSets, TLC

VARIABLES
    fixed_tags,     \* self.fixed_tags, normalised by __init__
    max_ai_tags,    \* self.max_ai_tags
    max_tags,       \* self.max_tags
    pc,             \* "idle" | "returned" | "raised": position of the one call
    op,             \* "none" | "generate_tags" | "parse_tags_response"
    product_tags,   \* product.tags of the call to generate_tags
    outcome,        \* what _call_claude does in this call: a reply or an error
    calls,          \* number of times _call_claude was invoked
    caught,         \* what the except clause of generate_tags swallowed
    non_fixed,      \* local non_fixed of generate_tags
    missing_fixed,  \* local missing_fixed of generate_tags
    new_ai_tags,    \* local new_ai_tags of generate_tags (what was extended)
    response,       \* argument of _parse_tags_response
    parsed,         \* what _parse_tags_response did: path and returned list
    result,         \* list returned by generate_tags (or by the catalog-side call)
    reply_body,     \* a reply body before it is wrapped in a fenced block
    plain,          \* what _parse_tags_response did on the body alone
    data,           \* the product payload handed to Product.from_api
    products,       \* the list of Product snapshots a caller works on
    loop_i,         \* position of a loop over products (enumerate from 1)
    results,        \* local results of generate_tags_batch: product id -> tags
    call_log,       \* the calls of generate_tags of a run, in order
    dry_run,        \* option --dry-run of the command
    confirmed,      \* answer to "Apply these tags?" of tag_product
    updated_count,  \* local updated_count of tag_all
    errors,         \* local errors of tag_all
    client,         \* "rest" (ShopifyClient) | "graphql" (ShopifyGraphQLClient)
    requests,       \* the requests sent to the platform, in order
    raised,         \* the exception that escaped the call, if any
    fetched,        \* the Product a client call returned, if any
    catalog,        \* the products the platform holds, in the order of their ids
    all_products,   \* local all_products of get_all_products
    since_id,       \* local since_id of ShopifyClient.get_all_products (<<>>: None)
    cursor,         \* local cursor of ShopifyGraphQLClient.get_all_products (<<>>: None)
    has_next        \* local has_next of ShopifyGraphQLClient.get_all_products

vars == <<fixed_tags, max_ai_tags, max_tags, pc, op, product_tags, outcome,
          calls, caught, non_fixed, missing_fixed, new_ai_tags, response, parsed, result,
          reply_body, plain, data, products, loop_i, results, call_log, dry_run, confirmed,
          updated_count, errors, client, requests, raised, fetched,
          catalog, all_products, since_id, cursor, has_next>>

\* what only the parsing of a body and of the same body fenced touches
fence_vars == <<reply_body, plain>>

\* what only the catalog side touches
catalog_vars == <<data, products>>

\* what only a run over a product list touches
batch_vars == <<loop_i, results, call_log, dry_run, confirmed, updated_count, errors>>

\* what only a call of a Shopify client touches
client_vars == <<client, requests, raised, fetched>>

\* what only the fetch of the whole catalog touches
page_vars == <<catalog, all_products, since_id, cursor, has_next>>

\* the tagger as constructed
tagger_vars == <<fixed_tags, max_ai_tags, max_tags>>

\* what a call of generate_tags leaves behind
call_vars == <<product_tags, outcome, calls, caught, non_fixed, missing_fixed, new_ai_tags,
               response, parsed, result>>

----------------------------------------------------------------------------
(* Bounds of the model *)

\* longest arbitrary reply text enumerated character by character
MaxTextLen == 3
\* largest max_ai_tags setting
MaxAiTags == 3
\* largest max_tags_per_product setting
MaxTotalTags == 5
\* longest list of tags in a reply of the model
MaxReplyTags == 2
\* nesting depth at which the interpreter's recursion guard stops json.loads
\* (sys.getrecursionlimit() in CPython, scaled down)
RecursionLimit == 2
\* longest list of products a caller holds
MaxProducts == 2
\* longest arbitrary tag string of a product payload
MaxTagStrLen == 4
\* longest product list of a batch run
MaxBatch == 3
\* longest product list selected for a run of tag_all
MaxSelected == 2
\* most answers of the platform to one client call
MaxResponses == 3

----------------------------------------------------------------------------
(* Python str primitives *)

Min(S) == CHOOSE x \in S : \A y \in S : x <= y

Max(S) == CHOOSE x \in S : \A y \in S : x >= y

\* str.isspace() on one character
IsSpace(c) == c \in {" ", "\n"}

\* str.lower() on one character
LowerChar(c) ==
    CASE c = "A" -> "a"
      [] c = "B" -> "b"
      [] c = "C" -> "c"
      [] c = "D" -> "d"
      [] c = "E" -> "e"
      [] OTHER -> c

\* str.lower()
Lower(s) == [i \in 1..Len(s) |-> LowerChar(s[i])]

\* str.strip(): drop leading and trailing whitespace
Strip(s) ==
    LET keep == {i \in 1..Len(s) : ~IsSpace(s[i])}
    IN  IF keep = {} THEN <<>> ELSE SubSeq(s, Min(keep), Max(keep))

\* str.startswith(prefix)
StartsWith(s, prefix) ==
    /\ Len(s) >= Len(prefix)
    /\ SubSeq(s, 1, Len(prefix)) = prefix

\* str.split(sep) for a one-character separator: always at least one piece
RECURSIVE Split(_, _)
Split(s, sep) ==
    LET at == {i \in 1..Len(s) : s[i] = sep}
    IN  IF at = {} THEN <<s>>
        ELSE <<SubSeq(s, 1, Min(at) - 1)>> \o Split(SubSeq(s, Min(at) + 1, Len(s)), sep)

\* sep.join(pieces)
RECURSIVE Join(_, _)
Join(pieces, sep) ==
    IF pieces = <<>> THEN <<>>
    ELSE IF Len(pieces) = 1 THEN pieces[1]
    ELSE pieces[1] \o <<sep>> \o Join(Tail(pieces), sep)

\* seq[:n], Python slice semantics (a negative n counts from the end)
PySlice(seq, n) ==
    IF n >= 0 THEN SubSeq(seq, 1, IF n < Len(seq) THEN n ELSE Len(seq))
    ELSE SubSeq(seq, 1, IF Len(seq) + n > 0 THEN Len(seq) + n ELSE 0)

\* the normal form of a tag used all over the tagger: t.lower().strip()
Norm(t) == Strip(Lower(t))

\* the backtick character, written ~ (a string of this notation cannot hold a backtick)
Backtick == "~"

\* the three backticks that open or close a markdown code block
Fence == <<Backtick, Backtick, Backtick>>

----------------------------------------------------------------------------
(* json.loads on the characters of the text *)

JsonWs(c) == c \in {" ", "\n"}

IsDigit(c) == c = "1"

JsonStr(chars) == [type |-> "str", str |-> chars, elems |-> <<>>]

JsonNum == [type |-> "num", str |-> <<>>, elems |-> <<>>]

JsonList(es) == [type |-> "list", str |-> <<>>, elems |-> es]

JsonFail(kind) == [st |-> kind, val |-> JsonNum, end |-> 0]

JsonOk(v, e) == [st |-> "ok", val |-> v, end |-> e]

\* first index >= i that is not JSON whitespace (Len(s) + 1 if none)
SkipWs(s, i) ==
    LET stop == {j \in i..Len(s) : ~JsonWs(s[j])}
    IN  IF stop = {} THEN (IF i > Len(s) + 1 THEN i ELSE Len(s) + 1) ELSE Min(stop)

RECURSIVE ScanOnce(_, _, _)
RECURSIVE ParseElems(_, _, _, _)

\* the elements of an array after the opening bracket, up to the closing one
ParseElems(s, i, depth, acc) ==
    LET r == ScanOnce(s, i, depth)
        j == SkipWs(s, r.end)
    IN  IF r.st # "ok" THEN r
        ELSE IF j > Len(s) THEN JsonFail("JSONDecodeError")
        ELSE IF s[j] = "]" THEN JsonOk(JsonList(Append(acc, r.val)), j + 1)
        ELSE IF s[j] = "," THEN ParseElems(s, SkipWs(s, j + 1), depth, Append(acc, r.val))
        ELSE JsonFail("JSONDecodeError")

\* one JSON value starting at index i; depth counts the enclosing arrays
ScanOnce(s, i, depth) ==
    IF i > Len(s) THEN JsonFail("JSONDecodeError")
    ELSE IF s[i] = "\"" THEN
        LET close == {k \in (i + 1)..Len(s) : s[k] = "\""}
        IN  IF close = {} THEN JsonFail("JSONDecodeError")
            ELSE IF \E k \in (i + 1)..(Min(close) - 1) : s[k] = "\n"
                 THEN JsonFail("JSONDecodeError")
            ELSE JsonOk(JsonStr(SubSeq(s, i + 1, Min(close) - 1)), Min(close) + 1)
    ELSE IF s[i] = "[" THEN
        IF depth + 1 > RecursionLimit THEN JsonFail("RecursionError")
        ELSE LET j == SkipWs(s, i + 1)
             IN  IF j <= Len(s) /\ s[j] = "]" THEN JsonOk(JsonList(<<>>), j + 1)
                 ELSE ParseElems(s, j, depth + 1, <<>>)
    ELSE IF IsDigit(s[i]) THEN
        LET stop == {k \in i..Len(s) : ~IsDigit(s[k])}
        IN  JsonOk(JsonNum, IF stop = {} THEN Len(s) + 1 ELSE Min(stop))
    ELSE JsonFail("JSONDecodeError")

\* the end of decoding: nothing but whitespace may follow the value r
JsonEnd(s, r) ==
    IF r.st # "ok" THEN r
    ELSE IF SkipWs(s, r.end) # Len(s) + 1 THEN JsonFail("JSONDecodeError")
    ELSE r

\* json.loads(s): the value, a JSONDecodeError, or a RecursionError on deep nesting
JsonLoads(s) == JsonEnd(s, ScanOnce(s, SkipWs(s, 1), 0))

----------------------------------------------------------------------------
(* ClaudeTagger._parse_tags_response *)

\* the loop without the membership test: a repeated tag is appended again
RECURSIVE NormalizeLoopNoDedup(_, _)
NormalizeLoopNoDedup(tags, normalized) ==
    IF tags = <<>> THEN normalized
    ELSE LET tag == Head(tags)
             t == Strip(Lower(tag.str))
         IN  IF tag.type = "str" /\ t # <<>>
             THEN NormalizeLoopNoDedup(Tail(tags), Append(normalized, t))
             ELSE NormalizeLoopNoDedup(Tail(tags), normalized)

\* the loop over the decoded list: strings only, lowercased and stripped,
\* empty ones and ones already in normalized skipped
RECURSIVE NormalizeLoop(_, _)
NormalizeLoop(tags, normalized) ==
    IF tags = <<>> THEN normalized
    ELSE LET tag == Head(tags)
             t == Strip(Lower(tag.str))
         IN  IF tag.type = "str" /\ t # <<>> /\ \A i \in 1..Len(normalized) : normalized[i] # t
             THEN NormalizeLoop(Tail(tags), Append(normalized, t))
             ELSE NormalizeLoop(Tail(tags), normalized)

\* a fallback that keeps only the first of equal pieces
FallbackTagsDeduplicated(text) ==
    LET pieces == Split(text, ",")
        tags == [i \in 1..Len(pieces) |-> Lower(Strip(pieces[i]))]
        firsts == [i \in 1..Len(tags) |->
                      IF \E j \in 1..(i - 1) : tags[j] = tags[i] THEN <<>> ELSE tags[i]]
    IN  SelectSeq(firsts, LAMBDA t : t # <<>>)

\* the fallback: comma-separated pieces, stripped then lowercased, empty ones dropped
FallbackTags(text) ==
    LET pieces == Split(text, ",")
        tags == [i \in 1..Len(pieces) |-> Lower(Strip(pieces[i]))]
    IN  SelectSeq(tags, LAMBDA t : t # <<>>)

\* strip() alone, the fence lines left in
UnfencedKeepsFence(text) == Strip(text)

\* the text after strip() and after the fence lines of a code block are dropped
Unfenced(text) ==
    LET stripped == Strip(text)
    IN  IF StartsWith(stripped, Fence)
        THEN Strip(Join(SelectSeq(Split(stripped, "\n"),
                                  LAMBDA line : ~StartsWith(line, Fence)), "\n"))
        ELSE stripped

\* the try/except around json.loads and the fallback after it, given what
\* json.loads(body) did: the path taken, the exception that escapes (if any)
\* and the list returned
ParseDecoded(body, tags) ==
    IF tags.st = "RecursionError"
    THEN [path |-> "raise", exc |-> "RecursionError", tags |-> <<>>, text |-> body]
    ELSE IF tags.st = "ok" /\ tags.val.type = "list"
    THEN [path |-> "structured", exc |-> "none",
          tags |-> NormalizeLoop(tags.val.elems, <<>>), text |-> body]
    ELSE [path |-> "fallback", exc |-> "none", tags |-> FallbackTags(body), text |-> body]

\* the parser on the text left after strip() and fence removal
ParseBody(body) == ParseDecoded(body, JsonLoads(body))

\* _parse_tags_response(text)
parse_tags_response(text) == ParseBody(Unfenced(text))

----------------------------------------------------------------------------
(* The tagger's configuration, the products and the model outcomes *)

Range(seq) == {seq[i] : i \in 1..Len(seq)}

\* all sequences over S of length at most n
SeqsUpTo(S, n) == UNION {[1..k -> S] : k \in 0..n}

\* no two entries with the same normal form
NormDistinct(seq) ==
    \A i, j \in 1..Len(seq) : i # j => Norm(seq[i]) # Norm(seq[j])

\* tags as the catalog spells them: any case, possibly with surrounding whitespace
ProductTagPool == {<<"A">>, <<"b", " ">>, <<"C", " ">>}

\* product.tags: the catalog keeps a product's tags distinct up to case, so a
\* list is as long as the pool has distinct tags
Products ==
    {t \in SeqsUpTo(ProductTagPool, Cardinality({Norm(x) : x \in ProductTagPool})) :
        NormDistinct(t)}

\* settings.fixed_tags as configured, before __init__ normalises them
FixedPool == {<<"c">>, <<"C", " ">>, <<"d">>}

\* none, one or two fixed tags, in either order
FixedConfigs == {f \in SeqsUpTo(FixedPool, 2) : NormDistinct(f)}

\* the state of the tagger after __init__: self.fixed_tags lowercased and stripped
InitTagger(settings_fixed_tags, settings_max_ai_tags, settings_max_tags) ==
    /\ fixed_tags = [i \in 1..Len(settings_fixed_tags) |-> Strip(Lower(settings_fixed_tags[i]))]
    /\ max_ai_tags = settings_max_ai_tags
    /\ max_tags = settings_max_tags

\* a JSON array of the given elements, as the model would write it
RECURSIVE JsonElemsText(_)
JsonElemsText(es) ==
    IF es = <<>> THEN <<>>
    ELSE LET e == Head(es)
             one == IF e.type = "str" THEN <<"\"">> \o e.str \o <<"\"">> ELSE <<"1">>
         IN  IF Len(es) = 1 THEN one ELSE one \o <<",", " ">> \o JsonElemsText(Tail(es))

JsonText(es) == <<"[">> \o JsonElemsText(es) \o <<"]">>

\* a comma-separated line of the given pieces
CommaText(ps) == Join(ps, ",")

\* the text inside a fenced code block, with a language label or an empty one
Fenced(label, text) == Fence \o label \o <<"\n">> \o text \o <<"\n">> \o Fence

\* elements the model may put in its array: a new tag, the same in another case
\* with whitespace, a tag the product has, a fixed tag
ReplyElems == {JsonStr(<<"e">>), JsonStr(<<"E", " ">>), JsonStr(<<"a">>), JsonStr(<<"c">>)}

\* what else an array may hold: an empty string, a blank one, a number, an array
OtherElems == {JsonStr(<<>>), JsonStr(<<" ">>), JsonNum}

\* pieces of a reply that is not JSON
ReplyPieces == {<<"e">>, <<" ", "E">>, <<"b">>, <<"C">>}

\* a reply nested one level deeper than the interpreter's recursion guard allows
DeepText == [i \in 1..(RecursionLimit + 1) |-> "["]

JsonReplies == {JsonText(es) : es \in SeqsUpTo(ReplyElems, MaxReplyTags)}

CommaReplies == {CommaText(ps) : ps \in SeqsUpTo(ReplyPieces, MaxReplyTags) \ {<<>>}}

\* replies of other shapes: fenced, with elements that are no tags, with empty
\* pieces, JSON that is no array, an empty reply, a reply nested too deep
OtherReplies ==
    {Fenced(<<>>, JsonText(<<JsonStr(<<"e">>), JsonStr(<<"a">>)>>)),
     Fenced(<<"a">>, CommaText(<<<<"e">>, <<"e">>>>)),
     JsonText(<<JsonStr(<<"e">>), JsonNum, JsonStr(<<"E", " ">>), JsonStr(<<>>), JsonStr(<<"a">>)>>),
     <<"e", ",", " ", "E", " ", ",", " ">>,
     <<"\"", "e", "\"">>, <<>>, DeepText}

\* the reply texts _call_claude may return to generate_tags
Replies == JsonReplies \cup CommaReplies \cup OtherReplies

\* _call_claude returns a text or raises (network, rate limit, API error)
Outcomes == {[kind |-> "reply", text |-> r] : r \in Replies} \cup {[kind |-> "error", text |-> <<>>]}

\* every text over the characters that matter to the parser, up to MaxTextLen
TextChars == {"a", "A", "1", " ", "\n", ",", "[", "]", "\"", Backtick}

\* the texts handed to the parser: those, the replies, arrays with every kind of
\* element, and each of them fenced
Texts ==
    LET arrays == {JsonText(es) : es \in SeqsUpTo(ReplyElems \cup OtherElems, MaxReplyTags)}
        bare == Replies \cup arrays
    IN  SeqsUpTo(TextChars, MaxTextLen) \cup bare
        \cup {Fenced(l, r) : l \in {<<>>, <<"a">>}, r \in bare}

----------------------------------------------------------------------------
(* ClaudeTagger.generate_tags *)

\* _get_non_fixed_tags
get_non_fixed_tags(tags, fixed) ==
    SelectSeq(tags, LAMBDA t : Strip(Lower(t)) \notin Range(fixed))

\* _get_missing_fixed_tags
get_missing_fixed_tags(current_tags, fixed) ==
    LET current_lower == {Strip(Lower(t)) : t \in Range(current_tags)}
    IN  SelectSeq(fixed, LAMBDA t : t \notin current_lower)

\* a gate that also lets a product with exactly max_ai_tags non-fixed tags through
NeedsAiTagsInclusive(non_fixed_tags, max_ai) == Len(non_fixed_tags) <= max_ai

\* no gate at all: the model is asked whatever the product already holds
NeedsAiTagsAlways(non_fixed_tags, max_ai) == TRUE

\* the generation gate
NeedsAiTags(non_fixed_tags, max_ai) == Len(non_fixed_tags) < max_ai

\* the filter left out: the model's tags pass as they are
DropFixedSkipped(ai_tags, fixed) == ai_tags

\* "Filter out any fixed tags Claude might have included"
DropFixed(ai_tags, fixed) ==
    SelectSeq(ai_tags, LAMBDA t : Lower(t) \notin Range(fixed))

\* "Filter out duplicates of existing tags"
DropExisting(ai_tags, final_tags) ==
    LET existing_lower == {Lower(t) : t \in Range(final_tags)}
    IN  SelectSeq(ai_tags, LAMBDA t : Lower(t) \notin existing_lower)

\* the limit left out: every tag that passed the filters is appended
LimitAiTagsSkipped(ai_tags, non_fixed_tags, max_ai) == ai_tags

\* "Limit AI tags"
LimitAiTags(ai_tags, non_fixed_tags, max_ai) ==
    LET slots_available == max_ai - Len(non_fixed_tags)
    IN  PySlice(ai_tags, slots_available)

NoParse == [path |-> "none", exc |-> "none", tags |-> <<>>, text |-> <<>>]

\* the try block after _parse_tags_response did p: the exception it ends with
\* (before final_tags is extended), or the tags final_tags is extended with
MergeParsed(p, seed, non_fixed_tags, fixed, max_ai) ==
    IF p.path = "raise"
    THEN [exc |-> p.exc, parse |-> p, new_ai_tags |-> <<>>]
    ELSE [exc |-> "none", parse |-> p,
          new_ai_tags |-> LimitAiTags(DropExisting(DropFixed(p.tags, fixed), seed),
                                      non_fixed_tags, max_ai)]

\* the body of the try block given what _call_claude did
TryAiTags(out, seed, non_fixed_tags, fixed, max_ai) ==
    IF out.kind = "error"
    THEN [exc |-> "APIError", parse |-> NoParse, new_ai_tags |-> <<>>]
    ELSE MergeParsed(parse_tags_response(out.text), seed, non_fixed_tags, fixed, max_ai)

\* an except clause that names the API error only
ExceptCatchesApiOnly(exc) == exc = "APIError"

\* "except Exception": every exception the try block can end with is an Exception
ExceptCatches(exc) == exc \in {"APIError", "RecursionError"}

\* the missing fixed tags put in front of the product's tags
SeedTagsFixedFirst(current_tags, missing) == missing \o current_tags

\* final_tags before the truncation: existing tags, missing fixed tags, AI tags
SeedTags(current_tags, missing) == current_tags \o missing

\* a slice that keeps the last max tags
TruncateKeepsLast(final_tags, max) ==
    SubSeq(final_tags, Max({1, Len(final_tags) - max + 1}), Len(final_tags))

\* the final slice left out
TruncateSkipped(final_tags, max) == final_tags

\* "Enforce Shopify's 13-tag limit"
Truncate(final_tags, max) == PySlice(final_tags, max)

\* generate_tags after the try statement did t: the except clause, then the return
AfterTry(t, nf, mf, seed, max) ==
    IF t.exc # "none" /\ ~ExceptCatches(t.exc)
    THEN [non_fixed |-> nf, missing_fixed |-> mf, calls |-> 1, raised |-> TRUE,
          caught |-> "none", parse |-> t.parse, new_ai_tags |-> <<>>,
          returned |-> <<>>]
    ELSE [non_fixed |-> nf, missing_fixed |-> mf, calls |-> 1, raised |-> FALSE,
          caught |-> t.exc, parse |-> t.parse, new_ai_tags |-> t.new_ai_tags,
          returned |-> Truncate(seed \o t.new_ai_tags, max)]

\* product.tags after the call, were final_tags the product's own list
ProductTagsAliased(current_tags, final_tags) == final_tags

\* product.tags after the call: final_tags is a new list, built by
\* list(current_tags) + missing_fixed, and extend() changes it alone
ProductTagsAfter(current_tags, final_tags) == current_tags

\* generate_tags(product) with the outcome of the model call
generate_tags(current_tags, out, fixed, max_ai, max) ==
    LET nf == get_non_fixed_tags(current_tags, fixed)
        mf == get_missing_fixed_tags(current_tags, fixed)
        seed == SeedTags(current_tags, mf)
    IN  IF NeedsAiTags(nf, max_ai)
        THEN AfterTry(TryAiTags(out, seed, nf, fixed, max_ai), nf, mf, seed, max)
        ELSE [non_fixed |-> nf, missing_fixed |-> mf, calls |-> 0, raised |-> FALSE,
              caught |-> "none", parse |-> NoParse, new_ai_tags |-> <<>>,
              returned |-> Truncate(seed, max)]

----------------------------------------------------------------------------
(* The catalog side: Product.from_api and get_all_existing_tags *)

\* a Product snapshot: the fields the tagging reads
Product(id, tags) == [id |-> id, tags |-> tags]

\* the pieces of the tag string, not trimmed
TagsFromStringUntrimmed(tags_str) ==
    IF tags_str # <<>>
    THEN SelectSeq(Split(tags_str, ","), LAMBDA t : Strip(t) # <<>>)
    ELSE <<>>

\* [t.strip() for t in tags_str.split(",") if t.strip()] if tags_str else []
TagsFromString(tags_str) ==
    IF tags_str # <<>>
    THEN LET pieces == Split(tags_str, ",")
         IN  SelectSeq([i \in 1..Len(pieces) |-> Strip(pieces[i])], LAMBDA t : t # <<>>)
    ELSE <<>>

\* Product.from_api(data): data.get("tags", "") then the list of tags
from_api(d) ==
    Product(d.id, TagsFromString(IF "tags" \in DOMAIN d THEN d.tags ELSE <<>>))

\* the code point of a character: str comparison goes by it
CodePoint(c) ==
    CASE c = "\n" -> 10 [] c = " " -> 32 [] c = "\"" -> 34 [] c = "," -> 44
      [] c = "1" -> 49 [] c = "A" -> 65 [] c = "B" -> 66 [] c = "C" -> 67
      [] c = "D" -> 68 [] c = "E" -> 69 [] c = "[" -> 91 [] c = "]" -> 93
      [] c = Backtick -> 96 [] c = "a" -> 97 [] c = "b" -> 98 [] c = "c" -> 99
      [] c = "d" -> 100 [] c = "e" -> 101

\* s < t for two str: the first differing character decides, a proper prefix is less
StrLess(s, t) ==
    \E k \in 1..(Len(t)) :
        /\ k <= Len(s) + 1
        /\ SubSeq(s, 1, k - 1) = SubSeq(t, 1, k - 1)
        /\ (k = Len(s) + 1 \/ CodePoint(s[k]) < CodePoint(t[k]))

\* sorted(S) for a set of str
RECURSIVE Sorted(_)
Sorted(S) ==
    IF S = {} THEN <<>>
    ELSE LET least == CHOOSE x \in S : \A y \in S \ {x} : StrLess(x, y)
         IN  <<least>> \o Sorted(S \ {least})

\* the set collected without lowercasing
AllTagsCaseKept(ps) ==
    UNION {Range(ps[i].tags) : i \in 1..Len(ps)}

\* all_tags after the loop: all_tags.update(tag.lower() for tag in product.tags)
AllTags(ps) ==
    UNION {{Lower(t) : t \in Range(ps[i].tags)} : i \in 1..Len(ps)}

\* get_all_existing_tags(products)
get_all_existing_tags(ps) == Sorted(AllTags(ps))

\* tags as they are spelled across a catalog
CatalogTagPool == {<<"a">>, <<"A">>, <<"B", " ">>, <<"b">>, <<"a", "b">>}

\* the tag lists of a product: distinct up to case and whitespace
CatalogTagLists ==
    {t \in SeqsUpTo(CatalogTagPool, Cardinality({Norm(x) : x \in CatalogTagPool})) :
        NormDistinct(t)}

\* the product lists a caller may hold: the i-th product has id i
ProductLists ==
    {[i \in 1..Len(ts) |-> Product(i, ts[i])] : ts \in SeqsUpTo(CatalogTagLists, MaxProducts)}

\* the characters of a tag string
TagStrChars == {"a", "B", " ", ","}

\* the product payloads of the REST API: with a tag string of any shape, or
\* without the tags field
Payloads ==
    {[id |-> 1]}
    \cup {[id |-> 1, tags |-> str] :
            str \in SeqsUpTo(TagStrChars, MaxTagStrLen)
                     \cup {<<"a", ",", " ", "B", " ", ",", ",", "a">>}}

\* no payload handed over yet
NoData == [id |-> 0]

\* no Product returned
NoProduct == Product(0, <<>>)

----------------------------------------------------------------------------
(* The Shopify clients: ShopifyClient (REST) and ShopifyGraphQLClient *)

\* an answer of the platform: the HTTP status, the top-level errors of a
\* GraphQL answer, the field-level validation errors (userErrors of a GraphQL
\* mutation, the errors object of a REST 422) and the product payload
Response(status, errs, user_errors, product) ==
    [status |-> status, errors |-> errs, userErrors |-> user_errors, product |-> product]

\* the platform is not reached: client.request raises before any answer
NoResponse == Response(0, <<>>, <<>>, NoData)

\* an exception: its type, the variable parts of its message, and the
\* response attached to it (httpx.HTTPStatusError.response)
Error(type, messages, resp) == [type |-> type, messages |-> messages, response |-> resp]

\* no exception escaped
NoError == Error("none", <<>>, NoResponse)

\* a request: HTTP method or GraphQL operation, product id, tags sent
Request(method, product_id, tags) == [method |-> method, id |-> product_id, tags |-> tags]

\* a request together with what came back
Exchange(req, resp) == [request |-> req, response |-> resp]

\* how a client call ends: the exchanges made, the exception raised, the
\* last response, the Product returned
Ended(exchanges, exc, resp, product) ==
    [exchanges |-> exchanges, raised |-> exc, response |-> resp, product |-> product]

\* the exchanges of an earlier request put in front
After(exchanges, r) == [r EXCEPT !.exchanges = exchanges \o @]

\* the statuses _request sleeps on and sends the request again
RetriesOn(status) == status = 429

\* ShopifyClient._request: a 429 is slept on and retried, raise_for_status()
\* raises on every other status from 400 on
RECURSIVE RestRequest(_, _)
RestRequest(req, script) ==
    IF script = <<>>
    THEN Ended(<<Exchange(req, NoResponse)>>, Error("ConnectError", <<>>, NoResponse),
               NoResponse, NoProduct)
    ELSE IF RetriesOn(Head(script).status)
    THEN After(<<Exchange(req, Head(script))>>, RestRequest(req, Tail(script)))
    ELSE IF Head(script).status >= 400
    THEN Ended(<<Exchange(req, Head(script))>>, Error("HTTPStatusError", <<>>, Head(script)),
               Head(script), NoProduct)
    ELSE Ended(<<Exchange(req, Head(script))>>, NoError, Head(script), NoProduct)

\* Product.from_api(data["product"]) on the answer of _request
RestProduct(r) ==
    IF r.raised # NoError THEN r
    ELSE IF r.response.product = NoData
    THEN [r EXCEPT !.raised = Error("KeyError", <<>>, NoResponse)]
    ELSE [r EXCEPT !.product = from_api(r.response.product)]

\* ", ".join(tags)
RECURSIVE JoinTags(_)
JoinTags(tags) ==
    IF tags = <<>> THEN <<>>
    ELSE IF Len(tags) = 1 THEN tags[1]
    ELSE tags[1] \o <<",", " ">> \o JoinTags(Tail(tags))

\* ShopifyClient.get_product
RestGetProduct(product_id, script) ==
    RestProduct(RestRequest(Request("GET", product_id, <<>>), script))

\* ShopifyClient.update_product_tags
RestUpdateProductTags(product_id, tags, script) ==
    RestProduct(RestRequest(Request("PUT", product_id, JoinTags(tags)), script))

\* ShopifyGraphQLClient._query: raise_for_status(), then the top-level errors
Query(req, script) ==
    IF script = <<>>
    THEN Ended(<<Exchange(req, NoResponse)>>, Error("ConnectError", <<>>, NoResponse),
               NoResponse, NoProduct)
    ELSE IF Head(script).status >= 400
    THEN Ended(<<Exchange(req, Head(script))>>, Error("HTTPStatusError", <<>>, Head(script)),
               Head(script), NoProduct)
    ELSE IF Head(script).errors # <<>>
    THEN Ended(<<Exchange(req, Head(script))>>, Error("Exception", Head(script).errors, NoResponse),
               Head(script), NoProduct)
    ELSE Ended(<<Exchange(req, Head(script))>>, NoError, Head(script), NoProduct)

\* Product.from_graphql(node): the tags are a list already
from_graphql(node) ==
    Product(node.id, IF "tags" \in DOMAIN node THEN node.tags ELSE <<>>)

\* a missing product taken for a product
ProductFoundAlways(product_data) == TRUE

\* "if not product_data" does not hold
ProductFound(product_data) == product_data # NoData

\* get_product after _query did q
QueriedProduct(q) ==
    IF q.raised # NoError THEN q
    ELSE IF ~ProductFound(q.response.product)
    THEN [q EXCEPT !.raised = Error("ValueError", <<>>, NoResponse)]
    ELSE [q EXCEPT !.product = from_graphql(q.response.product)]

\* ShopifyGraphQLClient.get_product
GraphqlGetProduct(product_id, script) ==
    QueriedProduct(Query(Request("product", product_id, <<>>), script))

\* the userErrors of the answer never looked at
HasUserErrorsIgnored(user_errors) == FALSE

\* "if user_errors"
HasUserErrors(user_errors) == user_errors # <<>>

\* f"{e['field']}: {e['message']}"
FormatUserError(e) == e.field \o <<":", " ">> \o e.message

\* update_product_tags after _query did q on the mutation: the userErrors,
\* the missing product, then the full product fetched with get_product
Mutated(product_id, q, rest) ==
    IF q.raised # NoError THEN q
    ELSE IF HasUserErrors(q.response.userErrors)
    THEN [q EXCEPT !.raised =
             Error("Exception",
                   [k \in 1..Len(q.response.userErrors) |->
                       FormatUserError(q.response.userErrors[k])],
                   NoResponse)]
    ELSE IF q.response.product = NoData
    THEN [q EXCEPT !.raised = Error("Exception", <<>>, NoResponse)]
    ELSE After(q.exchanges, GraphqlGetProduct(product_id, rest))

\* ShopifyGraphQLClient.update_product_tags
GraphqlUpdateProductTags(product_id, tags, script) ==
    Mutated(product_id, Query(Request("productUpdate", product_id, tags), script),
            IF script = <<>> THEN <<>> ELSE Tail(script))

\* client.get_product(product_id) of either client
get_product(kind, product_id, script) ==
    IF kind = "rest" THEN RestGetProduct(product_id, script)
    ELSE GraphqlGetProduct(product_id, script)

\* client.update_product_tags(product_id, tags) of either client
update_product_tags(kind, product_id, tags, script) ==
    IF kind = "rest" THEN RestUpdateProductTags(product_id, tags, script)
    ELSE GraphqlUpdateProductTags(product_id, tags, script)

\* the two clients
Clients == {"rest", "graphql"}

\* field-level validation errors as the platform reports them
UserError(field, message) == [field |-> field, message |-> message]

\* one validation error, or two
UserErrorLists ==
    {<<UserError(<<"a">>, <<"b">>)>>,
     <<UserError(<<"a">>, <<"b">>), UserError(<<"c">>, <<"d">>)>>}

\* what the REST API may answer for product product_id: the product, a 422 with
\* validation errors, a 429, a 404
RestResponses(product_id) ==
    {Response(200, <<>>, <<>>, [id |-> product_id, tags |-> <<"a", ",", " ", "B">>]),
     Response(429, <<>>, <<>>, NoData),
     Response(404, <<>>, <<>>, NoData)}
    \cup {Response(422, <<>>, ue, NoData) : ue \in UserErrorLists}

\* what the GraphQL API may answer for product product_id: the product, a
\* null product, userErrors, top-level errors, a 500
GraphqlResponses(product_id) ==
    {Response(200, <<>>, <<>>, [id |-> product_id, tags |-> <<<<"a">>, <<"B">>>>]),
     Response(200, <<>>, <<>>, NoData),
     Response(200, <<<<"e">>>>, <<>>, NoData),
     Response(500, <<>>, <<>>, NoData)}
    \cup {Response(200, <<>>, ue, NoData) : ue \in UserErrorLists}

\* the answers of the platform to the requests of one call, in order; a
\* request beyond them finds the platform unreachable
Scripts(kind, product_id) ==
    SeqsUpTo(IF kind = "rest" THEN RestResponses(product_id)
             ELSE GraphqlResponses(product_id), MaxResponses)

----------------------------------------------------------------------------
(* The state machine: one tagger, one call *)

NoOutcome == [kind |-> "none", text |-> <<>>]

Idle ==
    /\ pc = "idle"
    /\ op = "none"
    /\ product_tags = <<>>
    /\ outcome = NoOutcome
    /\ calls = 0
    /\ caught = "none"
    /\ non_fixed = <<>>
    /\ missing_fixed = <<>>
    /\ new_ai_tags = <<>>
    /\ response = <<>>
    /\ parsed = NoParse
    /\ result = <<>>
    /\ reply_body = <<>>
    /\ plain = NoParse
    /\ data = NoData
    /\ products = <<>>
    /\ loop_i = 0
    /\ results = <<>>
    /\ call_log = <<>>
    /\ dry_run = FALSE
    /\ confirmed = FALSE
    /\ updated_count = 0
    /\ errors = <<>>
    /\ client = "none"
    /\ requests = <<>>
    /\ raised = NoError
    /\ fetched = NoProduct
    /\ catalog = <<>>
    /\ all_products = <<>>
    /\ since_id = <<>>
    /\ cursor = <<>>
    /\ has_next = TRUE

\* a tagger constructed from any configuration
Init ==
    /\ \E f \in FixedConfigs, a \in 0..MaxAiTags, m \in 0..MaxTotalTags : InitTagger(f, a, m)
    /\ Idle

\* the locals of the call generate_tags(product) that ends as g says
CallEnds(tags, out, g) ==
    /\ product_tags' = tags
    /\ outcome' = IF g.calls = 1 THEN out ELSE NoOutcome
    /\ calls' = g.calls
    /\ caught' = g.caught
    /\ non_fixed' = g.non_fixed
    /\ missing_fixed' = g.missing_fixed
    /\ new_ai_tags' = g.new_ai_tags
    /\ response' = IF g.parse.path = "none" THEN <<>> ELSE out.text
    /\ parsed' = g.parse
    /\ result' = g.returned

\* the call generate_tags(product) ends as g says
Reconciled(tags, out, g) ==
    /\ CallEnds(tags, out, g)
    /\ pc' = IF g.raised THEN "raised" ELSE "returned"

\* a caller reconciles one product
GenerateTags ==
    /\ pc = "idle"
    /\ \E tags \in Products, out \in Outcomes :
         Reconciled(tags, out, generate_tags(tags, out, fixed_tags, max_ai_tags, max_tags))
    /\ op' = "generate_tags"
    /\ UNCHANGED <<fixed_tags, max_ai_tags, max_tags>>
    /\ UNCHANGED <<fence_vars, catalog_vars, batch_vars, client_vars>>
    /\ UNCHANGED page_vars

Next == GenerateTags

Spec == Init /\ [][Next]_vars

\* the tagger the parser is reached through when it is called on its own
InitParser ==
    /\ InitTagger(<<>>, MaxAiTags, MaxTotalTags)
    /\ Idle

\* the call _parse_tags_response(text) ends as p says
Parsed(text, p) ==
    /\ response' = text
    /\ parsed' = p
    /\ pc' = IF p.path = "raise" THEN "raised" ELSE "returned"

\* a caller hands one text to _parse_tags_response
ParseTagsResponse ==
    /\ pc = "idle"
    /\ \E text \in Texts : Parsed(text, parse_tags_response(text))
    /\ op' = "parse_tags_response"
    /\ UNCHANGED <<fixed_tags, max_ai_tags, max_tags, product_tags, outcome, calls, caught,
                   non_fixed, missing_fixed, new_ai_tags, result>>
    /\ UNCHANGED <<fence_vars, catalog_vars, batch_vars, client_vars>>
    /\ UNCHANGED page_vars

\* the opening fence carries a language label or none
FenceLabels == {<<>>, <<"a">>}

\* the bodies that get wrapped: every text, and bodies one of whose own lines
\* starts with a fence
FenceBodies ==
    Texts \cup {<<"a", ",", "\n">> \o Fence \o <<"b">>,
                <<" ">> \o Fence \o <<"a">>,
                <<"a", "\n">> \o Fence}

\* the parser ends as p_plain says on the body and as p says on the wrapped body
ParsedFenced(b, wrapped, p_plain, p) ==
    /\ reply_body' = b
    /\ plain' = p_plain
    /\ Parsed(wrapped, p)

\* a caller hands a body to _parse_tags_response, then the same body wrapped
\* in a fenced block
ParseFenced ==
    /\ pc = "idle"
    /\ \E b \in FenceBodies, label \in FenceLabels :
         ParsedFenced(b, Fenced(label, b), parse_tags_response(b),
                      parse_tags_response(Fenced(label, b)))
    /\ op' = "parse_fenced"
    /\ UNCHANGED <<fixed_tags, max_ai_tags, max_tags, product_tags, outcome, calls, caught,
                   non_fixed, missing_fixed, new_ai_tags, result>>
    /\ UNCHANGED <<catalog_vars, batch_vars, client_vars>>
    /\ UNCHANGED page_vars

NextParser == ParseTagsResponse \/ ParseFenced

SpecParser == InitParser /\ [][NextParser]_vars

\* the catalog side needs no tagger; the variables of the tagger stay as built
InitCatalog ==
    /\ InitTagger(<<>>, MaxAiTags, MaxTotalTags)
    /\ Idle

\* the REST client builds a Product from a payload
FromApi ==
    /\ pc = "idle"
    /\ \E d \in Payloads :
         /\ data' = d
         /\ result' = from_api(d).tags
    /\ op' = "from_api"
    /\ pc' = "returned"
    /\ UNCHANGED <<fixed_tags, max_ai_tags, max_tags, product_tags, outcome, calls, caught,
                   non_fixed, missing_fixed, new_ai_tags, response, parsed, products>>
    /\ UNCHANGED <<fence_vars, batch_vars, client_vars>>
    /\ UNCHANGED page_vars

\* a caller collects the vocabulary of a product list
GetAllExistingTags ==
    /\ pc = "idle"
    /\ \E ps \in ProductLists :
         /\ products' = ps
         /\ result' = get_all_existing_tags(ps)
    /\ op' = "get_all_existing_tags"
    /\ pc' = "returned"
    /\ UNCHANGED <<fixed_tags, max_ai_tags, max_tags, product_tags, outcome, calls, caught,
                   non_fixed, missing_fixed, new_ai_tags, response, parsed, data>>
    /\ UNCHANGED <<fence_vars, batch_vars, client_vars>>
    /\ UNCHANGED page_vars

NextCatalog == FromApi \/ GetAllExistingTags

SpecCatalog == InitCatalog /\ [][NextCatalog]_vars

----------------------------------------------------------------------------
(* The state machine: one tagger, generate_tags_batch over a product list *)

\* the tag lists of the products of a batch
SessionTagLists == {<<<<"A">>>>, <<<<"b", " ">>, <<"C", " ">>>>}

\* the product lists handed to generate_tags_batch: the i-th product has id i
SessionProductLists ==
    {[i \in 1..Len(ts) |-> Product(i, ts[i])] : ts \in SeqsUpTo(SessionTagLists, MaxBatch)}

\* what _call_claude does in a call of the batch
SessionOutcomes ==
    {[kind |-> "reply", text |-> JsonText(<<JsonStr(<<"e">>), JsonStr(<<"a">>)>>)],
     [kind |-> "reply", text |-> CommaText(<<<<"e">>, <<"b">>>>)],
     [kind |-> "error", text |-> <<>>]}

\* one tagger for the whole batch
InitSession ==
    /\ \E f \in {<<>>, <<<<"c">>>>}, a \in {1, MaxAiTags} : InitTagger(f, a, MaxTotalTags)
    /\ Idle

\* results[product.id] = tags
DictSet(dict, key, value) ==
    [k \in DOMAIN dict \cup {key} |-> IF k = key THEN value ELSE dict[k]]

\* a caller hands a product list to generate_tags_batch
GenerateTagsBatch ==
    /\ pc = "idle"
    /\ \E ps \in SessionProductLists : products' = ps
    /\ loop_i' = 1
    /\ results' = <<>>
    /\ op' = "generate_tags_batch"
    /\ pc' = "loop"
    /\ UNCHANGED <<fixed_tags, max_ai_tags, max_tags, product_tags, outcome, calls, caught,
                   non_fixed, missing_fixed, new_ai_tags, response, parsed, result>>
    /\ UNCHANGED <<data, call_log, dry_run, confirmed, updated_count, errors>>
    /\ UNCHANGED <<fence_vars, client_vars>>
    /\ UNCHANGED page_vars

\* the call generate_tags(product) of one iteration ends as g says
BatchCall(product, out, g) ==
    /\ CallEnds(product.tags, out, g)
    /\ products' = [products EXCEPT ![loop_i].tags =
                       ProductTagsAfter(product.tags,
                                        SeedTags(product.tags, g.missing_fixed) \o g.new_ai_tags)]
    /\ UNCHANGED <<fixed_tags, max_ai_tags, max_tags>>
    /\ call_log' = Append(call_log,
                          [product |-> product,
                           outcome |-> outcome',
                           raised |-> g.raised,
                           returned |-> g.returned,
                           tags_after |-> products'[loop_i].tags,
                           config_after |-> <<fixed_tags', max_ai_tags', max_tags'>>])
    /\ results' = IF g.raised THEN results ELSE DictSet(results, product.id, g.returned)
    /\ loop_i' = IF g.raised THEN loop_i ELSE loop_i + 1
    /\ pc' = IF g.raised THEN "raised" ELSE "loop"

\* one iteration of the loop of generate_tags_batch
BatchStep ==
    /\ pc = "loop"
    /\ op = "generate_tags_batch"
    /\ loop_i <= Len(products)
    /\ \E out \in SessionOutcomes :
         BatchCall(products[loop_i], out,
                   generate_tags(products[loop_i].tags, out, fixed_tags, max_ai_tags, max_tags))
    /\ UNCHANGED <<op, data, dry_run, confirmed, updated_count, errors>>
    /\ UNCHANGED <<fence_vars, client_vars>>
    /\ UNCHANGED page_vars

\* the loop is over: return results
BatchReturn ==
    /\ pc = "loop"
    /\ op = "generate_tags_batch"
    /\ loop_i > Len(products)
    /\ pc' = "returned"
    /\ UNCHANGED <<fixed_tags, max_ai_tags, max_tags, op, product_tags, outcome, calls, caught,
                   non_fixed, missing_fixed, new_ai_tags, response, parsed, result>>
    /\ UNCHANGED <<fence_vars, catalog_vars, batch_vars, client_vars>>
    /\ UNCHANGED page_vars

NextSession == GenerateTagsBatch \/ BatchStep \/ BatchReturn

SpecSession == InitSession /\ [][NextSession]_vars

----------------------------------------------------------------------------
(* The state machine: one call of a Shopify client, and tag_product *)

\* the settings the tagger of tag_product is built from
InitClient ==
    /\ \E f \in {<<>>, <<<<"c">>>>} : InitTagger(f, MaxAiTags, MaxTotalTags)
    /\ Idle

\* the ids a caller asks for
ProductIds == 1..MaxProducts

\* the call of the client ends as r says
ClientCallEnds(kind, r) ==
    /\ client' = kind
    /\ requests' = r.exchanges
    /\ raised' = r.raised
    /\ fetched' = r.product
    /\ pc' = IF r.raised = NoError THEN "returned" ELSE "raised"

\* a caller fetches one product by id
GetProduct ==
    /\ pc = "idle"
    /\ \E kind \in Clients, product_id \in ProductIds :
         \E script \in Scripts(kind, product_id) :
             ClientCallEnds(kind, get_product(kind, product_id, script))
    /\ op' = "get_product"
    /\ UNCHANGED <<tagger_vars, call_vars, fence_vars, catalog_vars, batch_vars>>
    /\ UNCHANGED page_vars

\* the tag lists a caller writes
WrittenTagLists == {<<<<"a">>>>, <<<<"a">>, <<"B">>>>}

\* a caller writes the tags of one product
UpdateProductTags ==
    /\ pc = "idle"
    /\ \E kind \in Clients, product_id \in ProductIds, tags \in WrittenTagLists :
         \E script \in Scripts(kind, product_id) :
             ClientCallEnds(kind, update_product_tags(kind, product_id, tags, script))
    /\ op' = "update_product_tags"
    /\ UNCHANGED <<tagger_vars, call_vars, fence_vars, catalog_vars, batch_vars>>
    /\ UNCHANGED page_vars

\* the answers left for the requests after those of r
ScriptAfter(script, r) == SubSeq(script, Len(r.exchanges) + 1, Len(script))

\* tag_product ends after the write did w (the write of a live, confirmed run)
TagProductWritten(kind, r, w) ==
    ClientCallEnds(kind, [After(r.exchanges, w) EXCEPT !.product = r.product])

\* tag_product after generate_tags did g on the fetched product
TagProductGenerated(kind, dry, confirm, script, out, r, g) ==
    /\ CallEnds(r.product.tags, out, g)
    /\ IF g.raised
       THEN ClientCallEnds(kind, [r EXCEPT !.raised = Error(g.parse.exc, <<>>, NoResponse)])
       ELSE IF ~dry /\ confirm
       THEN TagProductWritten(kind, r,
                update_product_tags(kind, r.product.id, g.returned, ScriptAfter(script, r)))
       ELSE ClientCallEnds(kind, r)

\* tag_product after client.get_product did r: an exception leaves the
\* command, a Product goes on to the tagger
TagProductFetched(kind, dry, confirm, script, out, r) ==
    IF r.raised # NoError
    THEN /\ ClientCallEnds(kind, r)
         /\ UNCHANGED call_vars
    ELSE TagProductGenerated(kind, dry, confirm, script, out, r,
             generate_tags(r.product.tags, out, fixed_tags, max_ai_tags, max_tags))

\* the command tag_product on one product id
TagProduct ==
    /\ pc = "idle"
    /\ \E kind \in Clients, product_id \in ProductIds, dry \in BOOLEAN, confirm \in BOOLEAN :
         \E script \in Scripts(kind, product_id), out \in SessionOutcomes :
             /\ dry_run' = dry
             /\ confirmed' = (~dry /\ confirm)
             /\ TagProductFetched(kind, dry, confirm, script, out,
                                  get_product(kind, product_id, script))
    /\ op' = "tag_product"
    /\ UNCHANGED <<tagger_vars, fence_vars, catalog_vars>>
    /\ UNCHANGED <<loop_i, results, call_log, updated_count, errors>>
    /\ UNCHANGED page_vars

NextClient == GetProduct \/ UpdateProductTags \/ TagProduct

SpecClient == InitClient /\ [][NextClient]_vars

----------------------------------------------------------------------------
(* The state machine: the command tag_all over the selected products *)

\* the product lists left after the filters of tag_all: the i-th has id i
SelectedLists ==
    {[i \in 1..Len(ts) |-> Product(i, ts[i])] : ts \in SeqsUpTo(SessionTagLists, MaxSelected)}

\* what _call_claude does for a product of the run
TagAllOutcomes ==
    {[kind |-> "reply", text |-> JsonText(<<JsonStr(<<"e">>), JsonStr(<<"a">>)>>)],
     [kind |-> "error", text |-> <<>>]}

\* the answers of the platform to the write of one product: none, any one
\* answer, or the product twice (the GraphQL write fetches the product again)
TagAllScripts(kind, product_id) ==
    {script \in Scripts(kind, product_id) :
        \/ Len(script) <= 1
        \/ Len(script) = 2 /\ script[1] = script[2] /\ script[1].product # NoData}

\* the command starts: the client is chosen, the products are selected; an
\* empty selection ends the command at once
TagAll ==
    /\ pc = "idle"
    /\ \E kind \in Clients, dry \in BOOLEAN, ps \in SelectedLists :
         /\ client' = kind
         /\ dry_run' = dry
         /\ products' = ps
         /\ pc' = IF ps = <<>> THEN "returned" ELSE "loop"
    /\ loop_i' = 1
    /\ updated_count' = 0
    /\ errors' = <<>>
    /\ op' = "tag_all"
    /\ UNCHANGED <<tagger_vars, call_vars, fence_vars>>
    /\ UNCHANGED <<data, results, call_log, confirmed, requests, raised, fetched>>
    /\ UNCHANGED page_vars

\* an except clause for HTTP errors only
TagAllCatchesHttpOnly(type) == type = "HTTPStatusError"

\* "except Exception as e" of the loop: every exception of the tagger and of
\* the clients is an Exception
TagAllCatches(type) ==
    type \in {"HTTPStatusError", "ConnectError", "Exception", "ValueError", "KeyError",
              "APIError", "RecursionError"}

\* no write was sent
NoWrite == Ended(<<>>, NoError, NoResponse, NoProduct)

\* a change check that finds a change in every product
TagsChangedAlways(new_tags, tags) == TRUE

\* the change check of the loop: the new tags and the product's tags are
\* compared as sets
TagsChanged(new_tags, tags) == Range(new_tags) # Range(tags)

\* the try body of one iteration ended as w says (a write, or none), changed
\* telling whether the new tags differ from the product's
TagAllIteration(product, g, w, changed) ==
    /\ UNCHANGED tagger_vars
    /\ requests' = requests \o w.exchanges
    /\ call_log' = Append(call_log,
                          [product |-> product,
                           outcome |-> outcome',
                           raised |-> g.raised,
                           returned |-> g.returned,
                           tags_after |-> product.tags,
                           config_after |-> <<fixed_tags', max_ai_tags', max_tags'>>,
                           error |-> w.raised])
    /\ IF w.raised = NoError
       THEN /\ updated_count' = IF changed THEN updated_count + 1 ELSE updated_count
            /\ loop_i' = loop_i + 1
            /\ UNCHANGED <<errors, raised, pc>>
       ELSE IF TagAllCatches(w.raised.type)
       THEN /\ errors' = Append(errors, [id |-> product.id, error |-> w.raised])
            /\ loop_i' = loop_i + 1
            /\ UNCHANGED <<updated_count, raised, pc>>
       ELSE /\ raised' = w.raised
            /\ pc' = "raised"
            /\ UNCHANGED <<updated_count, errors, loop_i>>

\* one iteration after generate_tags did g: the comparison of the tag sets,
\* then the write of a live run
TagAllGenerated(product, out, script, g) ==
    /\ CallEnds(product.tags, out, g)
    /\ IF g.raised
       THEN TagAllIteration(product, g,
                [NoWrite EXCEPT !.raised = Error(g.parse.exc, <<>>, NoResponse)], FALSE)
       ELSE IF TagsChanged(g.returned, product.tags) /\ ~dry_run
       THEN TagAllIteration(product, g,
                update_product_tags(client, product.id, g.returned, script), TRUE)
       ELSE TagAllIteration(product, g, NoWrite, TagsChanged(g.returned, product.tags))

\* one iteration of the loop over the selected products
TagAllStep ==
    /\ pc = "loop"
    /\ op = "tag_all"
    /\ loop_i <= Len(products)
    /\ \E out \in TagAllOutcomes, script \in TagAllScripts(client, products[loop_i].id) :
         TagAllGenerated(products[loop_i], out, script,
             generate_tags(products[loop_i].tags, out, fixed_tags, max_ai_tags, max_tags))
    /\ UNCHANGED <<fence_vars, catalog_vars>>
    /\ UNCHANGED <<op, results, dry_run, confirmed, client, fetched>>
    /\ UNCHANGED page_vars

\* the loop is over: the summary is printed
TagAllSummary ==
    /\ pc = "loop"
    /\ op = "tag_all"
    /\ loop_i > Len(products)
    /\ pc' = "returned"
    /\ UNCHANGED <<tagger_vars, op, call_vars, fence_vars, catalog_vars, batch_vars, client_vars>>
    /\ UNCHANGED page_vars

NextTagAll == TagAll \/ TagAllStep \/ TagAllSummary

SpecTagAll == InitClient /\ [][NextTagAll]_vars

(***************************************************************************)
(* Fetching the whole catalog: get_products and get_all_products of the    *)
(* two clients, against a platform that holds a finite catalog and serves  *)
(* it a page at a time.                                                    *)
(***************************************************************************)

\* the page size both loops ask for (250 in the source), scaled
PageLimit == 2

\* the largest product id of a catalog
MaxCatalogId == 5

\* an optional value: None, or Some(v)
None == <<>>

Some(v) == <<v>>

\* dict.get(key, default)
Get(d, key, default) == IF key \in DOMAIN d THEN d[key] ELSE default

\* a dict with no key
EmptyDict == [k \in {} |-> 0]

\* the ids of a set, ascending
RECURSIVE Ascending(_)
Ascending(ids) ==
    IF ids = {} THEN <<>>
    ELSE <<CHOOSE x \in ids : \A y \in ids : x <= y>>
            \o Ascending(ids \ {CHOOSE x \in ids : \A y \in ids : x <= y})

\* the product of the catalog with this id
CatalogProduct(id) == Product(id, IF id % 2 = 0 THEN <<<<"a">>>> ELSE <<>>)

\* the products of the ids, in the order of their ids
CatalogOf(ids) == [k \in 1..Len(ids) |-> CatalogProduct(ids[k])]

\* the catalogs of the platform: finite, ids positive and distinct
Catalogs == {CatalogOf(Ascending(ids)) : ids \in SUBSET (1..MaxCatalogId)}

\* the products of the catalog after a position, at most limit of them: the
\* platform serves a list in the order of the ids, from the start when no
\* position is named
PageOf(cat, after, limit) ==
    PySlice(SelectSeq(cat, LAMBDA p : after = None \/ p.id > after[1]), limit)

\* whether products of the catalog follow a page
MoreAfter(cat, page) ==
    page # <<>> /\ \E k \in 1..Len(cat) : cat[k].id > page[Len(page)].id

\* a request for a page: the HTTP method or GraphQL operation, its parameters
PageRequest(method, params) == [method |-> method, params |-> params]

\* the answer to GET /products.json
RestPageResponse(status, items) == [status |-> status, products |-> items]

\* the product as the REST API spells it: the tags are one string
RestPayload(p) == [id |-> p.id, tags |-> JoinTags(p.tags)]

\* the answers of the platform to GET /products.json with these parameters:
\* the page, an error status, a 429 before either, or no answer
RestPageScripts(cat, params) ==
    {<<>>,
     <<RestPageResponse(500, <<>>)>>,
     <<RestPageResponse(200,
         [k \in 1..Len(PageOf(cat, Get(params, "since_id", None), params.limit)) |->
             RestPayload(PageOf(cat, Get(params, "since_id", None), params.limit)[k])])>>,
     <<RestPageResponse(429, <<>>),
       RestPageResponse(200,
         [k \in 1..Len(PageOf(cat, Get(params, "since_id", None), params.limit)) |->
             RestPayload(PageOf(cat, Get(params, "since_id", None), params.limit)[k])])>>}

\* "if since_id:" holds: the id is neither None nor 0
SinceIdGiven(since) == since # None /\ since[1] # 0

\* params of ShopifyClient.get_products (status is the same in every request)
RestParams(limit, since) ==
    IF SinceIdGiven(since) THEN [limit |-> limit, since_id |-> Some(since[1])]
    ELSE [limit |-> limit]

\* [Product.from_api(p) for p in data.get("products", [])] on the answer of _request
RestBatch(r) ==
    [exchanges |-> r.exchanges,
     raised |-> r.raised,
     products |-> IF r.raised # NoError THEN <<>>
                  ELSE [k \in 1..Len(Get(r.response, "products", <<>>)) |->
                           from_api(Get(r.response, "products", <<>>)[k])]]

\* ShopifyClient.get_products(limit, since_id)
RestGetProducts(limit, since, script) ==
    RestBatch(RestRequest(PageRequest("GET", RestParams(limit, since)), script))

\* since_id taken from the first product of the batch
NextSinceIdFirst(since, batch) == Some(batch[1].id)

\* since_id = batch[-1].id
NextSinceId(since, batch) == Some(batch[Len(batch)].id)

\* the body of "while True" of ShopifyClient.get_all_products after
\* get_products did b
RestLoopBody(b) ==
    /\ requests' = requests \o b.exchanges
    /\ IF b.raised # NoError
       THEN /\ raised' = b.raised
            /\ pc' = "raised"
            /\ UNCHANGED <<all_products, since_id>>
       ELSE IF b.products = <<>>
       THEN /\ pc' = "returned"
            /\ UNCHANGED <<all_products, since_id, raised>>
       ELSE /\ all_products' = all_products \o b.products
            /\ since_id' = NextSinceId(since_id, b.products)
            /\ UNCHANGED <<pc, raised>>

\* the answer to the products query of GraphQL
GraphqlPageResponse(status, errs, d) == [status |-> status, errors |-> errs, data |-> d]

\* an edge of the products connection
Edge(p) == [node |-> [id |-> p.id, tags |-> p.tags]]

\* the pageInfo of a page
PageInfo(cat, page) ==
    [endCursor |-> IF page = <<>> THEN None ELSE Some(page[Len(page)].id),
     hasNextPage |-> MoreAfter(cat, page)]

\* the products connection for a page, with its pageInfo and without
Connection(cat, page) ==
    [edges |-> [k \in 1..Len(page) |-> Edge(page[k])], pageInfo |-> PageInfo(cat, page)]

ConnectionNoPageInfo(page) == [edges |-> [k \in 1..Len(page) |-> Edge(page[k])]]

\* the answers of the platform to the products query with these variables:
\* the page, the page without its pageInfo, an error status, errors, no answer
GraphqlPageScripts(cat, variables) ==
    {<<>>,
     <<GraphqlPageResponse(500, <<>>, EmptyDict)>>,
     <<GraphqlPageResponse(200, <<<<"t">>>>, EmptyDict)>>,
     <<GraphqlPageResponse(200, <<>>,
         [products |-> Connection(cat,
             PageOf(cat, Get(variables, "after", None), variables.first))])>>,
     <<GraphqlPageResponse(200, <<>>,
         [products |-> ConnectionNoPageInfo(
             PageOf(cat, Get(variables, "after", None), variables.first))])>>}

\* variables of ShopifyGraphQLClient.get_products: "if after:" holds for a
\* cursor the platform gave
GraphqlVariables(first, after) ==
    IF after # None THEN [first |-> Min({first, PageLimit}), after |-> after]
    ELSE [first |-> Min({first, PageLimit})]

\* products_data.get("edges", []), products_data.get("pageInfo", {})
EdgesOf(q) == Get(Get(Get(q.response, "data", EmptyDict), "products", EmptyDict), "edges", <<>>)

PageInfoOf(q) ==
    Get(Get(Get(q.response, "data", EmptyDict), "products", EmptyDict), "pageInfo", EmptyDict)

\* a missing hasNextPage taken for another page to come
HasNextPageDefaultTrue(page_info) == Get(page_info, "hasNextPage", TRUE)

\* page_info.get("hasNextPage", False)
HasNextPage(page_info) == Get(page_info, "hasNextPage", FALSE)

\* the tuple (products, end_cursor, has_next_page) get_products returns
\* after _query did q
GraphqlPage(q) ==
    [exchanges |-> q.exchanges,
     raised |-> q.raised,
     products |-> IF q.raised # NoError THEN <<>>
                  ELSE [k \in 1..Len(EdgesOf(q)) |-> from_graphql(EdgesOf(q)[k].node)],
     end_cursor |-> IF q.raised # NoError THEN None
                    ELSE Get(PageInfoOf(q), "endCursor", None),
     has_next_page |-> IF q.raised # NoError THEN FALSE ELSE HasNextPage(PageInfoOf(q))]

\* ShopifyGraphQLClient.get_products(first, after, query)
GraphqlGetProducts(first, after, script) ==
    GraphqlPage(Query(PageRequest("products", GraphqlVariables(first, after)), script))

\* the body of "while has_next" of ShopifyGraphQLClient.get_all_products
\* after get_products did g, and the test of the loop after it
GraphqlLoopBody(g) ==
    /\ requests' = requests \o g.exchanges
    /\ IF g.raised # NoError
       THEN /\ raised' = g.raised
            /\ pc' = "raised"
            /\ UNCHANGED <<all_products, cursor, has_next>>
       ELSE /\ all_products' = all_products \o g.products
            /\ cursor' = g.end_cursor
            /\ has_next' = g.has_next_page
            /\ pc' = IF g.has_next_page THEN "loop" ELSE "returned"
            /\ UNCHANGED raised

\* get_all_products is called on either client, against any catalog
GetAllProducts ==
    /\ pc = "idle"
    /\ \E kind \in Clients, cat \in Catalogs :
         /\ client' = kind
         /\ catalog' = cat
    /\ all_products' = <<>>
    /\ since_id' = None
    /\ cursor' = None
    /\ has_next' = TRUE
    /\ pc' = "loop"
    /\ op' = "get_all_products"
    /\ UNCHANGED <<tagger_vars, call_vars, fence_vars, catalog_vars, batch_vars>>
    /\ UNCHANGED <<requests, raised, fetched>>

\* one pass of the loop of ShopifyClient.get_all_products
RestGetAllProductsLoop ==
    /\ pc = "loop"
    /\ op = "get_all_products"
    /\ client = "rest"
    /\ \E script \in RestPageScripts(catalog, RestParams(PageLimit, since_id)) :
         RestLoopBody(RestGetProducts(PageLimit, since_id, script))
    /\ UNCHANGED <<tagger_vars, call_vars, fence_vars, catalog_vars, batch_vars>>
    /\ UNCHANGED <<op, client, fetched, catalog, cursor, has_next>>

\* one pass of the loop of ShopifyGraphQLClient.get_all_products
GraphqlGetAllProductsLoop ==
    /\ pc = "loop"
    /\ op = "get_all_products"
    /\ client = "graphql"
    /\ has_next
    /\ \E script \in GraphqlPageScripts(catalog, GraphqlVariables(PageLimit, cursor)) :
         GraphqlLoopBody(GraphqlGetProducts(PageLimit, cursor, script))
    /\ UNCHANGED <<tagger_vars, call_vars, fence_vars, catalog_vars, batch_vars>>
    /\ UNCHANGED <<op, client, fetched, catalog, since_id>>

NextFetch == GetAllProducts \/ RestGetAllProductsLoop \/ GraphqlGetAllProductsLoop

SpecFetch == InitClient /\ [][NextFetch]_vars

\* the loops run on: a call that was started is not left halfway
SpecFetchFair == SpecFetch /\ WF_vars(NextFetch)

----------------------------------------------------------------------------
(* Properties of generate_tags, checked under Spec *)

\* generate_tags has run and returned
Returned == op = "generate_tags" /\ pc = "returned"

\* the first n entries of seq (all of it if it is shorter), n >= 0
FirstN(seq, n) == [i \in 1..(IF Len(seq) < n THEN Len(seq) ELSE n) |-> seq[i]]

\* the normal forms present in a list
NormsOf(seq) == {Norm(seq[i]) : i \in 1..Len(seq)}

\* sub is seq with some entries left out, the order kept
IsSubsequence(sub, seq) ==
    \E f \in [1..Len(sub) -> 1..Len(seq)] :
        /\ \A i, j \in 1..Len(sub) : i < j => f[i] < f[j]
        /\ \A i \in 1..Len(sub) : sub[i] = seq[f[i]]

\* C1: the list generate_tags returns is never longer than max_tags_per_product,
\* whatever the product, the fixed tags, max_ai_tags and the model outcome
\* (settings with max_tags_per_product >= 0).
C1_LengthAtMostMax == Returned => Len(result) <= max_tags

\* C1 witness: the accumulated list was longer than the limit and was cut to it
C1_Witness ==
    /\ Returned
    /\ max_tags > 0
    /\ new_ai_tags # <<>>
    /\ Len(product_tags) + Len(missing_fixed) + Len(new_ai_tags) > max_tags
    /\ Len(result) = max_tags

\* C2 (as claimed): whenever the product has fewer than max_tags_per_product tags
\* before reconciliation, every fixed tag is present (normalized) in the result.
C2_FixedPresentBelowCap ==
    (Returned /\ Len(product_tags) < max_tags)
        => \A i \in 1..Len(fixed_tags) : fixed_tags[i] \in NormsOf(result)

\* C3 (as claimed): the result never holds two entries with the same normal form.
C3_NoNormalizedDuplicates == Returned => NormDistinct(result)

\* C4: no tag accepted from the model's reply normalizes to a fixed tag, so every
\* entry of the result that normalizes to a fixed tag lies among the product's
\* own tags or the repaired fixed tags, never among the appended model tags.
C4_NoFixedTagFromModel ==
    Returned =>
        /\ \A i \in 1..Len(new_ai_tags) : Norm(new_ai_tags[i]) \notin Range(fixed_tags)
        /\ \A i \in 1..Len(result) :
              Norm(result[i]) \in Range(fixed_tags)
                  => i <= Len(product_tags) + Len(missing_fixed)

\* C4 witness: the model's reply held a fixed tag and other tags were appended
C4_Witness ==
    /\ Returned
    /\ calls = 1
    /\ \E i \in 1..Len(parsed.tags) : parsed.tags[i] \in Range(fixed_tags)
    /\ new_ai_tags # <<>>
    /\ Len(result) = Len(product_tags) + Len(missing_fixed) + Len(new_ai_tags)

\* the number of the product's tags that are not fixed tags
NonFixedCount ==
    Cardinality({i \in 1..Len(product_tags) : Norm(product_tags[i]) \notin Range(fixed_tags)})

\* C5: the model is called, once, exactly when the product has fewer than
\* max_ai_tags non-fixed tags; otherwise no call is made and the result is
\* product.tags ++ missing_fixed cut to max_tags_per_product.
C5_GateThreshold ==
    Returned =>
        /\ (NonFixedCount < max_ai_tags) => calls = 1
        /\ (NonFixedCount >= max_ai_tags) =>
              /\ calls = 0
              /\ result = FirstN(product_tags \o missing_fixed, max_tags)

\* C5 witness: a product with exactly max_ai_tags non-fixed tags and a missing
\* fixed tag: no call, the repair is applied
C5_Witness ==
    /\ Returned
    /\ max_ai_tags > 0
    /\ NonFixedCount = max_ai_tags
    /\ calls = 0
    /\ missing_fixed # <<>>
    /\ Len(result) = Len(product_tags) + Len(missing_fixed)

\* C6: when the model call fails, or parsing its reply fails, generate_tags
\* raises nothing and returns product.tags ++ missing_fixed cut to
\* max_tags_per_product, with no model tag merged.
C6_FailureKeepsSeed ==
    (op = "generate_tags" /\ (outcome.kind = "error" \/ parsed.path = "raise")) =>
        /\ pc = "returned"
        /\ new_ai_tags = <<>>
        /\ result = FirstN(product_tags \o missing_fixed, max_tags)

\* C6 witness: parsing the reply failed for a product with tags and a missing fixed tag
C6_Witness ==
    /\ Returned
    /\ calls = 1
    /\ parsed.path = "raise"
    /\ product_tags # <<>>
    /\ missing_fixed # <<>>
    /\ Len(result) = Len(product_tags) + Len(missing_fixed)

\* the fixed tags no tag of the product normalizes to, in configuration order
MissingInOrder == SelectSeq(fixed_tags, LAMBDA f : f \notin NormsOf(product_tags))

\* C7: the result is the first max_tags_per_product entries of: the product's
\* tags as they were, then the missing fixed tags in configuration order, then
\* the admitted model tags in the order of the reply.
C7_ConcatenationOrder ==
    Returned =>
        /\ result = FirstN(product_tags \o MissingInOrder \o new_ai_tags, max_tags)
        /\ IsSubsequence(new_ai_tags, parsed.tags)

\* C7 witness: tags [A], fixed tags [d, c], a reply ["e", "a"] and room for all:
\* the result is [A, d, c, e]
C7_Witness ==
    /\ Returned
    /\ product_tags = <<<<"A">>>>
    /\ fixed_tags = <<<<"d">>, <<"c">>>>
    /\ parsed.tags = <<<<"e">>, <<"a">>>>
    /\ result = <<<<"A">>, <<"d">>, <<"c">>, <<"e">>>>

----------------------------------------------------------------------------
(* Properties of _parse_tags_response, checked under SpecParser *)

\* _parse_tags_response has been called on its own
ParserCalled == op = "parse_tags_response"

\* C8 (as claimed): _parse_tags_response raises for no text: every call returns a list.
C8_ParserNeverRaises == ParserCalled => pc = "returned"

\* the elements of the array the reply decodes to
DecodedElems == JsonLoads(parsed.text).val.elems

\* the normal forms of the string elements, in order
StringNorms ==
    LET strs == SelectSeq(DecodedElems, LAMBDA e : e.type = "str")
    IN  [i \in 1..Len(strs) |-> Norm(strs[i].str)]

\* seq with every entry that occurred earlier left out
RECURSIVE KeepFirst(_)
KeepFirst(seq) ==
    IF seq = <<>> THEN <<>>
    ELSE LET front == SubSeq(seq, 1, Len(seq) - 1)
             last == seq[Len(seq)]
         IN  IF last \in Range(front) THEN KeepFirst(front) ELSE Append(KeepFirst(front), last)

\* C9 (as claimed): on the structured path the result is the lowercased, trimmed
\* string elements, non-strings dropped, duplicates removed keeping the first.
C9_StructuredAsClaimed ==
    (ParserCalled /\ parsed.path = "structured") => parsed.tags = KeepFirst(StringNorms)

\* C9 (amended): on the structured path the result is the lowercased, trimmed
\* string elements, with non-strings and strings that are empty after trimming
\* dropped, and duplicates removed keeping the first, in first-seen order.
C9_StructuredNormalized ==
    (ParserCalled /\ parsed.path = "structured")
        => parsed.tags = KeepFirst(SelectSeq(StringNorms, LAMBDA t : t # <<>>))

\* C9 witness: ["e", 1, "E ", "", "a"] gives [e, a]: the number, the repeat (up to
\* case and whitespace) and the empty string dropped
C9_Witness ==
    /\ ParserCalled
    /\ parsed.path = "structured"
    /\ response = JsonText(<<JsonStr(<<"e">>), JsonNum, JsonStr(<<"E", " ">>), JsonStr(<<>>),
                             JsonStr(<<"a">>)>>)
    /\ parsed.tags = <<<<"e">>, <<"a">>>>

\* the pieces between the commas of a text, from the right, each in normal form,
\* the empty ones left out
RECURSIVE CommaPieces(_)
CommaPieces(text) ==
    LET commas == {i \in 1..Len(text) : text[i] = ","}
        keep(piece) == IF Norm(piece) = <<>> THEN <<>> ELSE <<Norm(piece)>>
    IN  IF commas = {} THEN keep(text)
        ELSE CommaPieces(SubSeq(text, 1, Max(commas) - 1))
                 \o keep(SubSeq(text, Max(commas) + 1, Len(text)))

Admissible ==
    SelectSeq(parsed.tags,
              LAMBDA t : /\ Lower(t) \notin Range(fixed_tags)
                         /\ \A i \in 1..Len(product_tags) : Lower(t) # Lower(product_tags[i])
                         /\ \A i \in 1..Len(missing_fixed) : Lower(t) # Lower(missing_fixed[i]))

\* C18: when the model was called, at most max_ai_tags minus the number of the
\* product's non-fixed tags are appended, they are the first ones, in reply
\* order, of the reply after filtering, and the result holds at most
\* max_ai_tags non-fixed tags.
C18_AiBudget ==
    (Returned /\ calls = 1) =>
        /\ Len(new_ai_tags) <= max_ai_tags - NonFixedCount
        /\ new_ai_tags = FirstN(Admissible, Len(new_ai_tags))
        /\ Cardinality({i \in 1..Len(result) : Norm(result[i]) \notin Range(fixed_tags)})
               <= max_ai_tags

\* C18 witness: the product holds a non-fixed tag and the reply more admissible
\* tags than the budget leaves room for: only the first ones are appended
C18_Witness ==
    /\ Returned
    /\ calls = 1
    /\ NonFixedCount > 0
    /\ new_ai_tags # <<>>
    /\ Len(new_ai_tags) = max_ai_tags - NonFixedCount
    /\ Len(Admissible) > Len(new_ai_tags)

\* C19: no appended model tag has the normal form (lowercased, trimmed) of a
\* tag of the seeded list (product.tags plus the repaired fixed tags).
C19_NoAppendedDuplicate ==
    Returned =>
        \A i \in 1..Len(new_ai_tags) :
            Norm(new_ai_tags[i]) \notin NormsOf(product_tags \o missing_fixed)

----------------------------------------------------------------------------
(* Properties of fenced replies, checked under SpecParser *)

FencedCalled == op = "parse_fenced"

\* the two calls end alike: both raise, or both return the same list
SameParse == plain.path # "raise" /\ parsed.path # "raise" /\ parsed.tags = plain.tags

\* a line of the stripped body starts with a fence
HasFenceLine(b) ==
    LET lines == Split(Strip(b), "\n")
    IN  \E i \in 1..Len(lines) : StartsWith(lines[i], Fence)

\* C11 as stated: for every reply body, the body wrapped in a fenced block
\* (with or without a language label) parses to the same tag list as the body
C11_FenceTransparent == FencedCalled /\ plain.path # "raise" => SameParse

\* C11 amended: for every reply body none of whose lines starts with a fence
\* (once the body is stripped), the wrapped body parses to the same tag list
C11_FenceTransparentNoFenceLine ==
    FencedCalled /\ plain.path # "raise" /\ ~HasFenceLine(reply_body) => SameParse

\* a labelled fence around a JSON array gives the tags of the array
C11_Witness ==
    /\ FencedCalled
    /\ ~HasFenceLine(reply_body)
    /\ response = Fenced(<<"a">>, reply_body)
    /\ plain.path = "structured"
    /\ plain.tags = <<<<"e">>, <<"a">>>>
    /\ parsed.tags = plain.tags

----------------------------------------------------------------------------
(* Properties of a run of calls, checked under SpecSession *)

\* the state the tagger was constructed with
ConfigNow == <<fixed_tags, max_ai_tags, max_tags>>

----------------------------------------------------------------------------
(* Properties of the catalog side, checked under SpecCatalog *)

ExistingCalled == op = "get_all_existing_tags" /\ pc = "returned"

\* the tags that occur on any product of the list
CatalogTags == UNION {Range(products[i].tags) : i \in 1..Len(products)}

\* s sorts before t: decided character by character from the front
RECURSIVE Precedes(_, _)
Precedes(s, t) ==
    IF t = <<>> THEN FALSE
    ELSE IF s = <<>> THEN TRUE
    ELSE IF s[1] = t[1] THEN Precedes(Tail(s), Tail(t))
    ELSE CodePoint(s[1]) < CodePoint(t[1])

\* C12: get_all_existing_tags returns each tag that occurs on any product
\* exactly once up to letter case, in lowercase, in ascending order, and
\* nothing else; an empty product list gives an empty list.
C12_ExistingTagsSortedUnique ==
    ExistingCalled =>
        /\ \A t \in CatalogTags :
             Cardinality({i \in 1..Len(result) : Lower(result[i]) = Lower(t)}) = 1
        /\ \A i \in 1..Len(result) :
             /\ result[i] = Lower(result[i])
             /\ \E t \in CatalogTags : Lower(t) = result[i]
        /\ \A i \in 1..(Len(result) - 1) : Precedes(result[i], result[i + 1])
        /\ products = <<>> => result = <<>>

\* C12 witness: [A, "B "] and [a, ab] give [a, ab, "b "]: A and a once, in
\* lowercase, a before ab before b
C12_Witness ==
    /\ ExistingCalled
    /\ products = <<Product(1, <<<<"A">>, <<"B", " ">>>>),
                    Product(2, <<<<"a">>, <<"a", "b">>>>)>>
    /\ result = <<<<"a">>, <<"a", "b">>, <<"b", " ">>>>

FromApiCalled == op = "from_api" /\ pc = "returned"

\* the pieces between the commas of a tag string, from the right, each
\* trimmed, the empty ones left out
RECURSIVE TrimmedPieces(_)
TrimmedPieces(text) ==
    LET commas == {i \in 1..Len(text) : text[i] = ","}
        keep(piece) == IF Strip(piece) = <<>> THEN <<>> ELSE <<Strip(piece)>>
    IN  IF commas = {} THEN keep(text)
        ELSE TrimmedPieces(SubSeq(text, 1, Max(commas) - 1))
                 \o keep(SubSeq(text, Max(commas) + 1, Len(text)))

\* C17: Product.from_api gives the comma-separated pieces of the tag string,
\* each trimmed, empty pieces dropped, in order; an empty tag string or a
\* payload without the tags field gives the empty list.
C17_FromApiTags ==
    FromApiCalled =>
        /\ "tags" \in DOMAIN data => result = TrimmedPieces(data.tags)
        /\ ("tags" \notin DOMAIN data \/ data.tags = <<>>) => result = <<>>

\* C17 witness: "a, B ,,a" gives [a, B, a]: trimmed, case kept, the empty piece
\* dropped, the repeat kept
C17_Witness ==
    /\ FromApiCalled
    /\ "tags" \in DOMAIN data
    /\ data.tags = <<"a", ",", " ", "B", " ", ",", ",", "a">>
    /\ result = <<<<"a">>, <<"B">>, <<"a">>>>

----------------------------------------------------------------------------
(* Properties of the Shopify clients and of tag_product, checked under SpecClient *)

UpdateCalled == op = "update_product_tags"

\* part occurs in text
Contains(text, part) ==
    \E a \in 0..(Len(text) - Len(part)) : SubSeq(text, a + 1, a + Len(part)) = part

\* the exception holds the field and the message of the validation error e:
\* in its own message, or in the response attached to it
Carries(exc, e) ==
    \/ \E m \in 1..Len(exc.messages) :
          Contains(exc.messages[m], e.field) /\ Contains(exc.messages[m], e.message)
    \/ \E j \in 1..Len(exc.response.userErrors) : exc.response.userErrors[j] = e

\* the k-th request is a write the platform rejected with validation errors
RejectedAt(k) ==
    /\ requests[k].request.method \in {"PUT", "productUpdate"}
    /\ requests[k].response.userErrors # <<>>

\* C14: when the platform rejects a tag update with field-level validation
\* errors, update_product_tags returns no Product, raises an error that
\* carries the field and message of every validation error, and sends no
\* further request.
C14_RejectionRaised ==
    UpdateCalled =>
        \A k \in 1..Len(requests) :
            RejectedAt(k) =>
                /\ k = Len(requests)
                /\ pc = "raised"
                /\ raised # NoError
                /\ fetched = NoProduct
                /\ \A j \in 1..Len(requests[k].response.userErrors) :
                     Carries(raised, requests[k].response.userErrors[j])

\* C14 witness: the GraphQL mutation answered with two userErrors: one
\* request, an Exception with "a: b" and "c: d"
C14_Witness ==
    /\ UpdateCalled
    /\ client = "graphql"
    /\ Len(requests) = 1
    /\ RejectedAt(1)
    /\ Len(requests[1].response.userErrors) = 2
    /\ pc = "raised"
    /\ raised.type = "Exception"
    /\ raised.messages = <<<<"a", ":", " ", "b">>, <<"c", ":", " ", "d">>>>

FetchCalled == op \in {"get_product", "tag_product"}

\* the k-th request belongs to the fetch by id (no write was sent before it)
\* and the platform answered it with "no such product": a 404 of the REST
\* API, a null product of the GraphQL API
NotFoundAt(k) ==
    /\ \A j \in 1..k : requests[j].request.method \in {"GET", "product"}
    /\ requests[k].response.product = NoData
    /\ \/ client = "rest" /\ requests[k].response.status = 404
       \/ /\ client = "graphql"
          /\ requests[k].response.status = 200
          /\ requests[k].response.errors = <<>>

\* C15: a fetch by an id the catalog does not hold returns no Product:
\* get_product raises, the exception leaves tag_product, which has then
\* generated no tags and sent no write.
C15_NotFoundRaised ==
    FetchCalled =>
        \A k \in 1..Len(requests) :
            NotFoundAt(k) =>
                /\ k = Len(requests)
                /\ pc = "raised"
                /\ raised # NoError
                /\ fetched = NoProduct
                /\ op = "tag_product" =>
                      /\ calls = 0
                      /\ parsed = NoParse
                      /\ result = <<>>
                      /\ \A j \in 1..Len(requests) :
                           requests[j].request.method \notin {"PUT", "productUpdate"}

\* C15 witness: a live, confirmed tag_product over GraphQL on an id the
\* catalog does not hold: ValueError, no call of the model, one request
C15_Witness ==
    /\ op = "tag_product"
    /\ client = "graphql"
    /\ ~dry_run
    /\ confirmed
    /\ Len(requests) = 1
    /\ NotFoundAt(1)
    /\ raised.type = "ValueError"
    /\ calls = 0

----------------------------------------------------------------------------
(* Properties of tag_all, checked under SpecTagAll *)

TagAllCalled == op = "tag_all"

\* the iterations so far whose try block ended with an exception
FailedSoFar == SelectSeq(call_log, LAMBDA c : c.error # NoError)

\* C13: in tag_all no failure of a product leaves the loop: the products are
\* attempted once each, in the order of the selected list, whatever happened
\* to the earlier ones, and errors holds exactly one entry per failed
\* product, in order.
C13_BatchContinues ==
    TagAllCalled =>
        /\ pc # "raised"
        /\ Len(call_log) = loop_i - 1
        /\ pc = "returned" => Len(call_log) = Len(products)
        /\ \A k \in 1..Len(call_log) : call_log[k].product = products[k]
        /\ Len(errors) = Len(FailedSoFar)
        /\ \A k \in 1..Len(errors) :
             /\ errors[k].id = FailedSoFar[k].product.id
             /\ errors[k].error = FailedSoFar[k].error

\* C13 witness: a live run over two products: the write of the first is
\* rejected, the second is still reconciled and written; one error, for the
\* first product
C13_Witness ==
    /\ TagAllCalled
    /\ pc = "returned"
    /\ ~dry_run
    /\ Len(products) = 2
    /\ Len(call_log) = 2
    /\ call_log[1].error # NoError
    /\ call_log[2].error = NoError
    /\ errors = <<[id |-> 1, error |-> call_log[1].error]>>
    /\ updated_count = 1

\* the write requests of the run: the REST PUT and the GraphQL productUpdate
WriteRequests ==
    SelectSeq(requests, LAMBDA x : x.request.method \in {"PUT", "productUpdate"})

\* the iterations so far that called update_product_tags and got its return
\* value: the tags differed as sets, the run is live, nothing was raised
WrittenSoFar ==
    SelectSeq(call_log, LAMBDA c :
        /\ ~c.raised
        /\ Range(c.returned) # Range(c.product.tags)
        /\ c.error = NoError)

C21_WitnessDryRun ==
    /\ TagAllCalled
    /\ pc = "returned"
    /\ dry_run
    /\ Len(call_log) = 2
    /\ \A k \in 1..2 : Range(call_log[k].returned) # Range(call_log[k].product.tags)
    /\ requests = <<>>
    /\ updated_count = 2

\* the try block of generate_tags got past _parse_tags_response: line 127
\* computed slots_available and line 128 sliced with it
SliceReached == Returned /\ calls = 1 /\ parsed.path \notin {"none", "raise"}

\* max_ai_tags - len(non_fixed), from the product and the configuration
SlotsAvailable == max_ai_tags - NonFixedCount

\* C22: whenever generate_tags computes slots_available = max_ai_tags -
\* len(non_fixed), the bound is at least 1, so the slice with it keeps the
\* first slots_available of the filtered tags and counts from the front.
C22_SlotsPositive ==
    SliceReached =>
        /\ SlotsAvailable >= 1
        /\ new_ai_tags = FirstN(Admissible, SlotsAvailable)

\* C22 witness: the product holds non-fixed tags up to one below the limit:
\* the bound is exactly 1 and the slice cuts the filtered reply to one tag
C22_Witness ==
    /\ SliceReached
    /\ NonFixedCount > 0
    /\ SlotsAvailable = 1
    /\ Len(Admissible) >= 2
    /\ Len(new_ai_tags) = 1

FetchAllCalled == op = "get_all_products"

FetchAllEnded == FetchAllCalled /\ pc \in {"returned", "raised"}

\* the ids of a product list, in its order
Ids(ps) == [k \in 1..Len(ps) |-> ps[k].id]

\* the page requests that were answered with a page
PagesServed ==
    SelectSeq(requests, LAMBDA x :
        /\ x.response.status = 200
        /\ Get(x.response, "errors", <<>>) = <<>>)

\* the products of a served page, as the platform sent them
ItemsOf(x) ==
    IF x.request.method = "GET" THEN x.response.products
    ELSE [k \in 1..Len(x.response.data.products.edges) |->
             x.response.data.products.edges[k].node]

\* the page came without pageInfo
LacksPageInfo(x) ==
    x.request.method = "products" /\ "pageInfo" \notin DOMAIN x.response.data.products

\* the position a page request named, None if it named none
PositionOf(x) ==
    IF x.request.method = "GET" THEN Get(x.request.params, "since_id", None)
    ELSE Get(x.request.params, "after", None)

\* what holds at every point of a fetch of the whole catalog: no product
\* twice and none out of order; each request names the last id fetched so
\* far; the REST loop returns on the first empty page and not before, the
\* GraphQL loop on the first page that reports no next page (one without
\* pageInfo is such a page) and not before; a fetch that returns after pages
\* that all carried what the platform sends has every product of the catalog
FetchAllSafe ==
    FetchAllCalled =>
        /\ Len(all_products) <= Len(catalog)
        /\ \A k \in 1..Len(all_products) : all_products[k] = catalog[k]
        /\ \A k \in 1..Len(PagesServed) :
             PositionOf(PagesServed[k]) =
                IF k = 1 THEN None
                ELSE Some(ItemsOf(PagesServed[k - 1])[Len(ItemsOf(PagesServed[k - 1]))].id)
        /\ client = "rest" =>
             /\ \A k \in 1..(Len(PagesServed) - 1) : ItemsOf(PagesServed[k]) # <<>>
             /\ pc = "returned" <=>
                   (PagesServed # <<>> /\ ItemsOf(PagesServed[Len(PagesServed)]) = <<>>)
             /\ pc = "returned" => Ids(all_products) = Ids(catalog)
        /\ client = "graphql" =>
             /\ \A k \in 1..(Len(PagesServed) - 1) :
                  /\ ~LacksPageInfo(PagesServed[k])
                  /\ PagesServed[k].response.data.products.pageInfo.hasNextPage
             /\ pc = "returned" <=>
                   /\ PagesServed # <<>>
                   /\ \/ LacksPageInfo(PagesServed[Len(PagesServed)])
                      \/ ~PagesServed[Len(PagesServed)].response.data.products.pageInfo.hasNextPage
             /\ (pc = "returned" /\ ~LacksPageInfo(PagesServed[Len(PagesServed)]))
                   => Ids(all_products) = Ids(catalog)

\* C23: fetching the whole catalog of a platform that holds finitely many
\* products ends, and what it returns holds every product once, in page
\* order: the REST loop names the last id of each non-empty batch in the next
\* request and stops at the first empty batch, the GraphQL loop names the
\* cursor it was given and stops at the first page that reports no next page,
\* a page without pageInfo included.
C23_FetchAllTerminates == []FetchAllSafe /\ <>FetchAllEnded

\* C23 witness: the REST loop returned a catalog of more than one page: at
\* least two non-empty batches, then the empty one
C23_Witness ==
    /\ FetchAllCalled
    /\ pc = "returned"
    /\ client = "rest"
    /\ Len(catalog) > PageLimit
    /\ Ids(all_products) = Ids(catalog)
    /\ Len(PagesServed) >= 3
    /\ since_id = Some(catalog[Len(catalog)].id)

\* C23 witness of the GraphQL loop: more than one page, followed by cursor
C23_WitnessGraphql ==
    /\ FetchAllCalled
    /\ pc = "returned"
    /\ client = "graphql"
    /\ Len(catalog) > PageLimit
    /\ Ids(all_products) = Ids(catalog)
    /\ Len(PagesServed) >= 2
    /\ ~has_next
    /\ cursor = Some(catalog[Len(catalog)].id)

\* C23 witness of a page without pageInfo: the GraphQL loop stopped there,
\* before the end of the catalog
C23_WitnessNoPageInfo ==
    /\ FetchAllCalled
    /\ pc = "returned"
    /\ client = "graphql"
    /\ LacksPageInfo(PagesServed[Len(PagesServed)])
    /\ Len(all_products) < Len(catalog)

====
